---- MODULE Spec2Model ----
(***************************************************************************)
(* AWR (avilla with ricq): the staged multi-account service of             *)
(* python/awr/avilla.py.  AWRService.launch logs every configured account  *)
(* in during the "preparing" stage and then holds the process in the       *)
(* "blocking" stage, racing the aggregate of the session handles against   *)
(* the shutdown signal of the launch manager.                              *)
(*                                                                         *)
(* launch is a coroutine on a single-threaded event loop: each action      *)
(* below is one run of launch between two suspension points, or one step   *)
(* of its environment (a login finishing, a session ending, the shutdown   *)
(* signal, a callback of the event loop, the host touching the protocol).  *)
(***************************************************************************)
EXTENDS Integers, Sequences, FiniteSets, TLC

(* ---------------------------- bounds ----------------------------------- *)
MaxAccounts == 2
MaxRaces == 2
MaxExternal == 1
MaxTarget == 2
MaxContent == 2

Uins == 1..MaxAccounts
Methods == {"Password", "QrCode"}
DefaultFolder == "./bots"
Folders == {DefaultFolder, "./data"}
Unset == "<unset>"
None == "None"

LoginErrors == {"AuthenticationError", "NetworkError", "ChallengeTimeout"}
Rejected == "Rejected"
AWRInterface == "AWRInterface"
InterfaceTypes == {AWRInterface, "ExportInterface"}
supported_interface_types == {AWRInterface}
Self == "AWRService"

VARIABLES
    accounts,          \* protocol.accounts: dict uin -> LoginMethod, in iteration order
    ctor_data_folder,  \* the data_folder argument AWRProtocol.__init__ was called with
    data_folder,       \* the attribute protocol.data_folder (Unset: no such attribute)
    pc,                \* position of the launch coroutine
    idx,               \* number of items the for loop has taken from accounts.items()
    handles,           \* the local list `handles` of launch (indices into sessions)
    calls,             \* history: login invocations made by launch, with their outcome
    error,             \* the exception launch ended with, None otherwise
    stage_log,         \* history: the stages launch has entered, in order
    sessions,          \* every session handle ever created: [uin, state, owner]
    sigexit,           \* the shutdown signal has fired
    exit_mark,         \* the task exit_mark: "none", "pending", "done"
    gather,            \* the aggregate future of the current race
    idle_races,        \* races begun with every handle ended and the signal unfired
    ext_logins,        \* history: number of logins the host made itself, and the last result
    iface_req,         \* the last get_interface call: [type, error, iface]
    sig_at,            \* history: the stage launch was in when the shutdown signal fired
    built,             \* the last call of a message builder: [fn, arg, out]
    content            \* a message content: the sequence of the Elements admitted to it

vars == <<accounts, ctor_data_folder, data_folder, pc, idx, handles, calls, error,
          stage_log, sessions, sigexit, exit_mark, gather, idle_races, ext_logins,
          iface_req, sig_at, built, content>>

message == <<built, content>>

lifecycle == <<pc, idx, handles, calls, error, stage_log, exit_mark, gather, idle_races>>

(* ---------------------------- helpers ---------------------------------- *)
Min(a, b) == IF a < b THEN a ELSE b

Range(s) == {s[i] : i \in 1..Len(s)}

\* The LoginMethod the configuration gives each account.
MethodOf(u) == IF u % 2 = 1 THEN "Password" ELSE "QrCode"

\* dict[int, LoginMethod]: keys are unique, iteration order is insertion order.
AccountMappings ==
    {s \in UNION {[1..n -> {[uin |-> u, method |-> MethodOf(u)] : u \in Uins}] :
                     n \in 0..MaxAccounts} :
        \A i, j \in 1..Len(s) : i # j => s[i].uin # s[j].uin}

\* A session handle is live until it ends (disconnect, fatal error).
Live(u) == \E h \in 1..Len(sessions) : sessions[h].uin = u /\ sessions[h].state = "running"

Ended(h) == sessions[h].state # "running"

AllEnded == \A i \in 1..Len(handles) : Ended(handles[i])

AnyFailed == \E i \in 1..Len(handles) : sessions[handles[i]].state \in {"failed", "cancelled"}

inflight == {i \in 1..Len(calls) : calls[i].result = "pending"}

\* Where launch is: before it, in one of its two stages, or after it.
Stage ==
    CASE pc = "start" -> "start"
      [] pc \in {"for_next", "login_wait"} -> "preparing"
      [] pc \in {"loop", "wait"} -> "blocking"
      [] OTHER -> "ended"

(* ---------------------------- Init ------------------------------------- *)
\* AWRProtocol.__init__ stores accounts and drops data_folder; AWRService.__init__
\* stores the protocol.
Init ==
    /\ accounts \in AccountMappings
    /\ ctor_data_folder \in Folders
    /\ data_folder = Unset
    /\ pc = "start"
    /\ idx = 0
    /\ handles = <<>>
    /\ calls = <<>>
    /\ error = None
    /\ stage_log = <<>>
    /\ sessions = <<>>
    /\ sigexit = FALSE
    /\ exit_mark = "none"
    /\ gather = "none"
    /\ idle_races = 0
    /\ ext_logins = [count |-> 0, result |-> None]
    /\ iface_req = [type |-> None, error |-> None, iface |-> None]
    /\ sig_at = None
    /\ built = [fn |-> None]
    /\ content = <<>>

(* ---------------------------- the host --------------------------------- *)
\* protocol.data_folder is a declared public attribute: the host may assign it
\* before launching (the constructor never does).
SetDataFolder(d) ==
    /\ pc = "start"
    /\ data_folder = Unset
    /\ data_folder' = d
    /\ UNCHANGED <<accounts, ctor_data_folder, lifecycle, sessions, sigexit,
                   ext_logins, iface_req, sig_at, message>>

(* ---------------------------- preparing -------------------------------- *)
\* async with self.stage("preparing"): handles = []
Launch ==
    /\ pc = "start"
    /\ pc' = "for_next"
    /\ stage_log' = Append(stage_log, "preparing")
    /\ handles' = <<>>
    /\ UNCHANGED <<accounts, ctor_data_folder, data_folder, idx, calls, error,
                   sessions, sigexit, exit_mark, gather, idle_races, ext_logins,
                   iface_req, sig_at, message>>

PrepareNext_Parallel ==
    /\ pc \in {"for_next", "login_wait"}
    /\ idx < Len(accounts)
    /\ data_folder # Unset
    /\ idx' = idx + 1
    /\ calls' = Append(calls, [uin |-> accounts[idx + 1].uin,
                               method |-> accounts[idx + 1].method,
                               folder |-> data_folder,
                               result |-> "pending"])
    /\ pc' = "login_wait"
    /\ UNCHANGED <<accounts, ctor_data_folder, data_folder, handles, error,
                   stage_log, sessions, sigexit, exit_mark, gather, idle_races,
                   ext_logins, iface_req, sig_at, message>>

PrepareNext_StopOnSignal ==
    /\ pc = "for_next"
    /\ idx < Len(accounts)
    /\ ~sigexit
    /\ idx' = idx + 1
    /\ IF data_folder = Unset
       THEN /\ pc' = "aborted"
            /\ error' = "AttributeError"
            /\ calls' = calls
       ELSE /\ pc' = "login_wait"
            /\ error' = error
            /\ calls' = Append(calls, [uin |-> accounts[idx + 1].uin,
                                       method |-> accounts[idx + 1].method,
                                       folder |-> data_folder,
                                       result |-> "pending"])
    /\ UNCHANGED <<accounts, ctor_data_folder, data_folder, handles, stage_log,
                   sessions, sigexit, exit_mark, gather, idle_races, ext_logins,
                   iface_req, sig_at, message>>

\* for uin, method in self.protocol.accounts.items():
\*     handle = await method.login(uin, self.protocol.data_folder)
\* up to the suspension of the await.  __init__ never assigned
\* self.data_folder: unless the host did, evaluating the argument
\* self.protocol.data_folder raises AttributeError before login is called.
PrepareNext ==
    /\ pc = "for_next"
    /\ idx < Len(accounts)
    /\ idx' = idx + 1
    /\ IF data_folder = Unset
       THEN /\ pc' = "aborted"
            /\ error' = "AttributeError"
            /\ calls' = calls
       ELSE /\ pc' = "login_wait"
            /\ error' = error
            /\ calls' = Append(calls, [uin |-> accounts[idx + 1].uin,
                                       method |-> accounts[idx + 1].method,
                                       folder |-> data_folder,
                                       result |-> "pending"])
    /\ UNCHANGED <<accounts, ctor_data_folder, data_folder, handles, stage_log,
                   sessions, sigexit, exit_mark, gather, idle_races, ext_logins,
                   iface_req, sig_at, message>>

\* login(account_id, data_directory) -> SessionHandle: a second handle for an
\* account whose handle has not ended is rejected.
CanLogin(u) == ~Live(u)

NewSession(u, owner) == Append(sessions, [uin |-> u, state |-> "running", owner |-> owner])

LoginReturn_AppendTwice(i) ==
    /\ pc = "login_wait"
    /\ i \in inflight
    /\ CanLogin(calls[i].uin)
    /\ sessions' = NewSession(calls[i].uin, "service")
    /\ handles' = Append(Append(handles, Len(sessions) + 1), Len(sessions) + 1)
    /\ calls' = [calls EXCEPT ![i].result = "ok"]
    /\ pc' = "for_next"
    /\ UNCHANGED <<accounts, ctor_data_folder, data_folder, idx, error, stage_log,
                   sigexit, exit_mark, gather, idle_races, ext_logins, iface_req, sig_at, message>>

\* The awaited login completes: handle = <result>; handles.append(handle)
LoginReturn(i) ==
    /\ pc = "login_wait"
    /\ i \in inflight
    /\ CanLogin(calls[i].uin)
    /\ sessions' = NewSession(calls[i].uin, "service")
    /\ handles' = Append(handles, Len(sessions) + 1)
    /\ calls' = [calls EXCEPT ![i].result = "ok"]
    /\ pc' = "for_next"
    /\ UNCHANGED <<accounts, ctor_data_folder, data_folder, idx, error, stage_log,
                   sigexit, exit_mark, gather, idle_races, ext_logins, iface_req, sig_at, message>>

LoginFail_Swallow(i, err) ==
    /\ pc = "login_wait"
    /\ i \in inflight
    /\ err \in LoginErrors \cup {Rejected}
    /\ (err = Rejected) => ~CanLogin(calls[i].uin)
    /\ calls' = [calls EXCEPT ![i].result = err]
    /\ pc' = "for_next"
    /\ UNCHANGED <<accounts, ctor_data_folder, data_folder, idx, handles, error,
                   stage_log, sessions, sigexit, exit_mark, gather, idle_races,
                   ext_logins, iface_req, sig_at, message>>

LoginFail_Rollback(i, err) ==
    /\ pc = "login_wait"
    /\ i \in inflight
    /\ err \in LoginErrors \cup {Rejected}
    /\ (err = Rejected) => ~CanLogin(calls[i].uin)
    /\ calls' = [calls EXCEPT ![i].result = err]
    /\ pc' = "aborted"
    /\ error' = err
    /\ sessions' = [h \in 1..Len(sessions) |->
                      IF h \in Range(handles) /\ sessions[h].state = "running"
                      THEN [sessions[h] EXCEPT !.state = "cancelled"]
                      ELSE sessions[h]]
    /\ UNCHANGED <<accounts, ctor_data_folder, data_folder, idx, handles,
                   stage_log, sigexit, exit_mark, gather, idle_races,
                   ext_logins, iface_req, sig_at, message>>

\* The awaited login raises: the exception leaves the for loop, the stage block
\* and launch; nothing catches it.
LoginFail(i, err) ==
    /\ pc = "login_wait"
    /\ i \in inflight
    /\ err \in LoginErrors \cup {Rejected}
    /\ (err = Rejected) => ~CanLogin(calls[i].uin)
    /\ calls' = [calls EXCEPT ![i].result = err]
    /\ pc' = "aborted"
    /\ error' = err
    /\ UNCHANGED <<accounts, ctor_data_folder, data_folder, idx, handles,
                   stage_log, sessions, sigexit, exit_mark, gather, idle_races,
                   ext_logins, iface_req, sig_at, message>>

(* ---------------------------- blocking --------------------------------- *)
\* asyncio.gather(*handles): with no argument an already finished future.
NewGather == IF handles = <<>> THEN "result" ELSE "pending"

EnterBlocking_Early ==
    /\ pc = "for_next"
    /\ stage_log' = Append(stage_log, "blocking")
    /\ exit_mark' = "pending"
    /\ pc' = "wait"
    /\ gather' = NewGather
    /\ idle_races' = IF AllEnded /\ ~sigexit
                     THEN Min(idle_races + 1, MaxRaces) ELSE idle_races
    /\ UNCHANGED <<accounts, ctor_data_folder, data_folder, idx, handles, calls,
                   error, sessions, sigexit, ext_logins, iface_req, sig_at,
                   message>>

EnterBlocking_SkipEmpty ==
    /\ pc = "for_next"
    /\ idx = Len(accounts)
    /\ stage_log' = Append(stage_log, "blocking")
    /\ exit_mark' = "pending"
    /\ pc' = IF handles = <<>> THEN "done" ELSE "wait"
    /\ gather' = NewGather
    /\ idle_races' = IF AllEnded /\ ~sigexit
                     THEN Min(idle_races + 1, MaxRaces) ELSE idle_races
    /\ UNCHANGED <<accounts, ctor_data_folder, data_folder, idx, handles, calls,
                   error, sessions, sigexit, ext_logins, iface_req, sig_at,
                   message>>

\* The for loop is exhausted; the preparing block exits;
\* async with self.stage("blocking"):
\*     exit_mark = asyncio.create_task(manager.status.wait_for_sigexit())
\*     while not exit_mark.done(): await asyncio.wait([asyncio.gather(...), ...
\* The task just created has not run when the loop is first tested, so the
\* first race is always begun.
EnterBlocking ==
    /\ pc = "for_next"
    /\ idx = Len(accounts)
    /\ stage_log' = Append(stage_log, "blocking")
    /\ exit_mark' = "pending"
    /\ pc' = "wait"
    /\ gather' = NewGather
    /\ idle_races' = IF AllEnded /\ ~sigexit
                     THEN Min(idle_races + 1, MaxRaces) ELSE idle_races
    /\ UNCHANGED <<accounts, ctor_data_folder, data_folder, idx, handles, calls,
                   error, sessions, sigexit, ext_logins, iface_req, sig_at,
                   message>>

\* The task exit_mark runs wait_for_sigexit(), which returns once the signal fired.
ExitMarkRun ==
    /\ exit_mark = "pending"
    /\ sigexit
    /\ exit_mark' = "done"
    /\ UNCHANGED <<accounts, ctor_data_folder, data_folder, pc, idx, handles, calls,
                   error, stage_log, sessions, sigexit, gather, idle_races,
                   ext_logins, iface_req, sig_at, message>>

LoopTest_ExitOnHandles ==
    /\ pc = "loop"
    /\ IF exit_mark = "done" \/ gather \in {"result", "exception"}
       THEN /\ pc' = "done"
            /\ UNCHANGED <<gather, idle_races>>
       ELSE /\ pc' = "wait"
            /\ gather' = NewGather
            /\ idle_races' = IF AllEnded /\ ~sigexit
                             THEN Min(idle_races + 1, MaxRaces) ELSE idle_races
    /\ UNCHANGED <<accounts, ctor_data_folder, data_folder, idx, handles, calls,
                   error, stage_log, sessions, sigexit, exit_mark, ext_logins,
                   iface_req, sig_at, message>>

LoopTest_CancelHandles ==
    /\ pc = "loop"
    /\ IF exit_mark = "done"
       THEN /\ pc' = "done"
            /\ sessions' = [h \in 1..Len(sessions) |->
                              IF h \in Range(handles) /\ sessions[h].state = "running"
                              THEN [sessions[h] EXCEPT !.state = "cancelled"]
                              ELSE sessions[h]]
            /\ UNCHANGED <<gather, idle_races>>
       ELSE /\ pc' = "wait"
            /\ gather' = NewGather
            /\ sessions' = sessions
            /\ idle_races' = IF AllEnded /\ ~sigexit
                             THEN Min(idle_races + 1, MaxRaces) ELSE idle_races
    /\ UNCHANGED <<accounts, ctor_data_folder, data_folder, idx, handles, calls,
                   error, stage_log, sigexit, exit_mark, ext_logins,
                   iface_req, sig_at, message>>

\* asyncio.wait has returned: while not exit_mark.done(): await asyncio.wait(
\* [asyncio.gather(*handles), exit_mark], return_when=FIRST_COMPLETED), up to
\* the suspension; when exit_mark is done the loop, the blocking block and
\* launch end.
LoopTest ==
    /\ pc = "loop"
    /\ IF exit_mark = "done"
       THEN /\ pc' = "done"
            /\ UNCHANGED <<gather, idle_races>>
       ELSE /\ pc' = "wait"
            /\ gather' = NewGather
            /\ idle_races' = IF AllEnded /\ ~sigexit
                             THEN Min(idle_races + 1, MaxRaces) ELSE idle_races
    /\ UNCHANGED <<accounts, ctor_data_folder, data_folder, idx, handles, calls,
                   error, stage_log, sessions, sigexit, exit_mark, ext_logins,
                   iface_req, sig_at, message>>

\* The done callbacks of gather (return_exceptions=False): the first child seen
\* to have failed sets the exception at once; the result is set when every
\* child has finished.
GatherCallback ==
    /\ pc = "wait"
    /\ gather = "pending"
    /\ AnyFailed \/ AllEnded
    /\ gather' = IF AnyFailed THEN "exception" ELSE "result"
    /\ UNCHANGED <<accounts, ctor_data_folder, data_folder, pc, idx, handles, calls,
                   error, stage_log, sessions, sigexit, exit_mark, idle_races,
                   ext_logins, iface_req, sig_at, message>>

WaitReturn_AllCompleted ==
    /\ pc = "wait"
    /\ gather \in {"result", "exception"} /\ exit_mark = "done"
    /\ pc' = "loop"
    /\ UNCHANGED <<accounts, ctor_data_folder, data_folder, idx, handles, calls,
                   error, stage_log, sessions, sigexit, exit_mark, gather,
                   idle_races, ext_logins, iface_req, sig_at, message>>

WaitReturn_Raise ==
    /\ pc = "wait"
    /\ gather \in {"result", "exception"} \/ exit_mark = "done"
    /\ IF gather = "exception"
       THEN pc' = "aborted" /\ error' = "SessionError"
       ELSE pc' = "loop" /\ error' = error
    /\ UNCHANGED <<accounts, ctor_data_folder, data_folder, idx, handles, calls,
                   stage_log, sessions, sigexit, exit_mark, gather,
                   idle_races, ext_logins, iface_req, sig_at, message>>

\* asyncio.wait(..., return_when=FIRST_COMPLETED) returns (done, pending) as soon
\* as one of the two futures is done; it raises nothing of theirs.
WaitReturn ==
    /\ pc = "wait"
    /\ gather \in {"result", "exception"} \/ exit_mark = "done"
    /\ pc' = "loop"
    /\ UNCHANGED <<accounts, ctor_data_folder, data_folder, idx, handles, calls,
                   error, stage_log, sessions, sigexit, exit_mark, gather,
                   idle_races, ext_logins, iface_req, sig_at, message>>

(* ---------------------------- environment ------------------------------ *)
\* A session handle ends on its own: disconnect ("done") or fatal error ("failed").
SessionEnd(h, outcome) ==
    /\ h \in 1..Len(sessions)
    /\ sessions[h].state = "running"
    /\ outcome \in {"done", "failed"}
    /\ sessions' = [sessions EXCEPT ![h].state = outcome]
    /\ UNCHANGED <<accounts, ctor_data_folder, data_folder, lifecycle, sigexit,
                   ext_logins, iface_req, sig_at, message>>

\* The external one-shot shutdown signal (manager.status.wait_for_sigexit).
SigExit ==
    /\ ~sigexit
    /\ sigexit' = TRUE
    /\ sig_at' = Stage
    /\ UNCHANGED <<accounts, ctor_data_folder, data_folder, lifecycle, sessions,
                   ext_logins, iface_req, message>>

\* The host logs an account in itself, outside the service.
ExternalLogin(u) ==
    /\ ext_logins.count < MaxExternal
    /\ IF CanLogin(u)
       THEN /\ sessions' = NewSession(u, "host")
            /\ ext_logins' = [count |-> ext_logins.count + 1, result |-> "ok"]
       ELSE /\ sessions' = sessions
            /\ ext_logins' = [count |-> ext_logins.count + 1, result |-> Rejected]
    /\ UNCHANGED <<accounts, ctor_data_folder, data_folder, lifecycle, sigexit,
                   iface_req, sig_at, message>>

(* ---------------------------- get_interface ---------------------------- *)
GetInterface_NoCheck(t) ==
    /\ t \in InterfaceTypes
    /\ iface_req' = [type |-> t, error |-> None, iface |-> Self]
    /\ UNCHANGED <<accounts, ctor_data_folder, data_folder, lifecycle, sessions,
                   sigexit, ext_logins, sig_at, message>>

\* if interface_type is not AWRInterface: raise TypeError(...)
\* return AWRInterface(self)
GetInterface(t) ==
    /\ t \in InterfaceTypes
    /\ iface_req' = IF t # AWRInterface
                    THEN [type |-> t, error |-> "TypeError", iface |-> None]
                    ELSE [type |-> t, error |-> None, iface |-> Self]
    /\ UNCHANGED <<accounts, ctor_data_folder, data_folder, lifecycle, sessions,
                   sigexit, ext_logins, sig_at, message>>

(* ---------------------------- message elements ------------------------- *)
\* Python values: None, an int, a str.
PyNone == [kind |-> "NoneType", i |-> 0, s |-> ""]

PyInt(n) == [kind |-> "int", i |-> n, s |-> ""]

PyStr(t) == [kind |-> "str", i |-> 0, s |-> t]

IntValues == {PyInt(n) : n \in (0 - MaxTarget)..MaxTarget}

StrValues == {PyStr(t) : t \in {"", "hi", "smile"}}

IsValue(v) == DOMAIN v = {"kind", "i", "s"}

\* isinstance(v, int), isinstance(v, str)
IsInt(v) == IsValue(v) /\ v.kind = "int"

IsStr(v) == IsValue(v) /\ v.kind = "str"

\* def text(text: str) -> Text
text(t) == [type |-> "text", text |-> t]

at_Validating(target) ==
    IF target.i >= 1 THEN [type |-> "at", target |-> target]
                     ELSE [type |-> "error", target |-> target]

\* def at(target: int) -> At
at(target) == [type |-> "at", target |-> target]

face_NameOnly(id_or_name) == [type |-> "face", id |-> PyNone, name |-> id_or_name]

\* def face(id_or_name: int | str) -> Face
face(id_or_name) ==
    IF IsInt(id_or_name)
    THEN [type |-> "face", id |-> id_or_name, name |-> PyNone]
    ELSE [type |-> "face", id |-> PyNone, name |-> id_or_name]

\* class Text(TypedDict): type: Literal["text"]; text: str
Text(v) == DOMAIN v = {"type", "text"} /\ v.type = "text" /\ IsStr(v.text)

\* class At(TypedDict): type: Literal["at"]; target: int
At(v) == DOMAIN v = {"type", "target"} /\ v.type = "at" /\ IsInt(v.target)

\* class Face(TypedDict): type: Literal["face"]; id: int | None; name: str | None
Face(v) ==
    /\ DOMAIN v = {"type", "id", "name"}
    /\ v.type = "face"
    /\ (IsInt(v.id) \/ v.id = PyNone)
    /\ (IsStr(v.name) \/ v.name = PyNone)

Element_AnyDict(v) == IsStr(v) \/ "type" \in DOMAIN v

\* Element = str | Text | At | Face
Element(v) == IsStr(v) \/ Text(v) \/ At(v) \/ Face(v)

\* The host calls a builder.
CallText(t) ==
    /\ built' = [fn |-> "text", arg |-> t, out |-> text(t)]
    /\ UNCHANGED <<accounts, ctor_data_folder, data_folder, lifecycle, sessions,
                   sigexit, ext_logins, iface_req, sig_at, content>>

CallAt(target) ==
    /\ built' = [fn |-> "at", arg |-> target, out |-> at(target)]
    /\ UNCHANGED <<accounts, ctor_data_folder, data_folder, lifecycle, sessions,
                   sigexit, ext_logins, iface_req, sig_at, content>>

CallFace(id_or_name) ==
    /\ built' = [fn |-> "face", arg |-> id_or_name, out |-> face(id_or_name)]
    /\ UNCHANGED <<accounts, ctor_data_folder, data_folder, lifecycle, sessions,
                   sigexit, ext_logins, iface_req, sig_at, content>>

\* Values that are no builder's result: a record of an unknown type, a text
\* whose payload is no str.
Malformed == {[type |-> "image", text |-> PyStr("hi")], [type |-> "text", text |-> PyInt(1)]}

\* What the host may try to put into a content: the last builder result, bare
\* values, malformed records.
Candidates ==
    (IF built.fn # None THEN {built.out} ELSE {})
        \cup IntValues \cup StrValues \cup {PyNone} \cup Malformed

\* The host puts a value into a message content; only an Element is admitted.
Admit(v) ==
    /\ Len(content) < MaxContent
    /\ Element(v)
    /\ content' = Append(content, v)
    /\ UNCHANGED <<accounts, ctor_data_folder, data_folder, lifecycle, sessions,
                   sigexit, ext_logins, iface_req, sig_at, built>>

(* ---------------------------- specification ---------------------------- *)
\* launch and what it waits for: the logins, the sessions, the shutdown signal.
NextLaunch ==
    \/ \E d \in Folders : SetDataFolder(d)
    \/ Launch
    \/ PrepareNext
    \/ \E i \in 1..MaxAccounts : LoginReturn(i)
    \/ \E i \in 1..MaxAccounts, err \in LoginErrors \cup {Rejected} : LoginFail(i, err)
    \/ EnterBlocking
    \/ ExitMarkRun
    \/ LoopTest
    \/ GatherCallback
    \/ WaitReturn
    \/ \E h \in 1..(MaxAccounts + MaxExternal), o \in {"done", "failed"} : SessionEnd(h, o)
    \/ SigExit

\* ... and the launch manager asking the service for its interface.
Next ==
    \/ NextLaunch
    \/ \E t \in InterfaceTypes : GetInterface(t)

Spec == Init /\ [][Next]_vars

\* The preparing stage beside a host that also logs accounts in itself.
NextPrepare ==
    \/ \E d \in Folders : SetDataFolder(d)
    \/ Launch
    \/ PrepareNext
    \/ \E i \in 1..MaxAccounts : LoginReturn(i)
    \/ \E i \in 1..MaxAccounts, err \in LoginErrors \cup {Rejected} : LoginFail(i, err)
    \/ EnterBlocking
    \/ \E h \in 1..(MaxAccounts + MaxExternal), o \in {"done", "failed"} : SessionEnd(h, o)
    \/ \E u \in Uins : ExternalLogin(u)

PrepareSpec == Init /\ [][NextPrepare]_vars

\* The event loop runs every ready callback and task: the steps of launch and
\* of exit_mark that are enabled are eventually taken.  Logins, sessions and
\* the shutdown signal are under no such obligation.
FairSpec ==
    /\ Spec
    /\ WF_vars(ExitMarkRun)
    /\ WF_vars(LoopTest)
    /\ WF_vars(GatherCallback)
    /\ WF_vars(WaitReturn)

\* launch itself is a task of the event loop: its own steps out of the
\* preparing stage are taken too, once the awaited login has returned.
FairLaunchSpec ==
    /\ FairSpec
    /\ WF_vars(PrepareNext)
    /\ WF_vars(EnterBlocking)

\* The message builders and the message content, with no service running.
MessageInit ==
    /\ Init
    /\ accounts = <<>>
    /\ ctor_data_folder = DefaultFolder

NextMessage ==
    \/ \E t \in StrValues : CallText(t)
    \/ \E n \in IntValues : CallAt(n)
    \/ \E x \in IntValues \cup StrValues : CallFace(x)
    \/ \E v \in Candidates : Admit(v)

MessageSpec == MessageInit /\ [][NextMessage]_vars

TypeOK ==
    /\ accounts \in AccountMappings
    /\ data_folder \in Folders \cup {Unset}
    /\ pc \in {"start", "for_next", "login_wait", "loop", "wait", "done", "aborted"}
    /\ idx \in 0..Len(accounts)
    /\ sigexit \in BOOLEAN
    /\ exit_mark \in {"none", "pending", "done"}
    /\ gather \in {"none", "pending", "result", "exception"}
    /\ idle_races \in 0..MaxRaces


(* ---------------------------- claims ----------------------------------- *)
ServiceHandles == {handles[i] : i \in 1..Len(handles)}

InBlocking == pc \in {"loop", "wait"}

\* C1: the blocking stage (and with it launch) has ended only if the shutdown
\* signal has fired and the task exit_mark has observed it; session handles
\* that all completed on their own do not end it.
C1_BlockingExitsOnlyOnSignal ==
    pc = "done" => (sigexit /\ exit_mark = "done")

\* C1 witness: launch has returned after a run in which every handle had ended
\* while the signal was still unset and a further race was begun.
C1_Witness ==
    /\ pc = "done"
    /\ handles # <<>>
    /\ AllEnded
    /\ idle_races > 0

\* C2 (as claimed): once every handle has completed and the signal has not
\* fired, the supervisor re-enters the handles-versus-signal race only a
\* bounded number of times: the count of such races stays below the horizon
\* the model follows it to.
C2_NoBusyWait ==
    idle_races < MaxRaces

\* C3: once the shutdown signal has fired during the blocking stage, launch
\* eventually returns, whatever the session handles do.
C3_SignalEndsBlocking ==
    (InBlocking /\ sigexit) ~> (pc = "done")

\* C3 witness: launch has returned while a handle of the service never completed.
C3_Witness ==
    /\ pc = "done"
    /\ \E h \in ServiceHandles : sessions[h].state = "running"

\* C4: logins are started in the iteration order of accounts and one at a
\* time: every login before the last one started has completed successfully.
C4_SequentialLogins ==
    /\ Len(calls) <= Len(accounts)
    /\ Cardinality(inflight) <= 1
    /\ \A i \in 1..Len(calls) :
         /\ calls[i].uin = accounts[i].uin
         /\ (i < Len(calls) => calls[i].result = "ok")

\* C4 witness: the second account's login is in flight after the first one's
\* completed, for a mapping whose order is not the order of the uins.
C4_Witness ==
    /\ Len(calls) = 2
    /\ calls[1].result = "ok"
    /\ calls[2].result = "pending"
    /\ accounts[1].uin > accounts[2].uin

\* C5: a failed login aborts launch with that failure, is the last login ever
\* attempted (no later account, no retry), and the blocking stage is not entered.
C5_LoginFailureAborts ==
    \A i \in 1..Len(calls) :
        calls[i].result \notin {"pending", "ok"} =>
            /\ pc = "aborted"
            /\ error = calls[i].result
            /\ i = Len(calls)
            /\ stage_log = <<"preparing">>

\* C5 witness: the first of two accounts failed to log in.
C5_Witness ==
    /\ Len(accounts) = 2
    /\ Len(calls) = 1
    /\ calls[1].result \in LoginErrors
    /\ pc = "aborted"

\* C6 (as claimed): every login of the preparing stage is given the account's
\* uin and method and the data_folder the protocol was constructed with, and
\* preparing gets a handle for every configured account (it does not end on
\* anything but a failing login).
C6_LoginWithConfiguredFolder ==
    /\ \A i \in 1..Len(calls) :
         /\ calls[i].uin = accounts[i].uin
         /\ calls[i].method = accounts[i].method
         /\ calls[i].folder = ctor_data_folder
    /\ error # "AttributeError"

\* C7: the stages are entered in the order preparing, blocking, each at most
\* once, and blocking only after every configured account logged in.
C7_StageOrder ==
    /\ stage_log \in {<<>>, <<"preparing">>, <<"preparing", "blocking">>}
    /\ (pc \in {"for_next", "login_wait"} => stage_log = <<"preparing">>)
    /\ (InBlocking \/ pc = "done") => stage_log = <<"preparing", "blocking">>
    /\ "blocking" \in Range(stage_log) =>
         /\ Len(calls) = Len(accounts)
         /\ Len(handles) = Len(accounts)
         /\ \A i \in 1..Len(calls) : calls[i].result = "ok"

\* C7 witness: blocking was entered with two accounts logged in.
C7_Witness ==
    /\ stage_log = <<"preparing", "blocking">>
    /\ Len(accounts) = 2

\* C8: the step in which launch aborts changes no session handle: the handles
\* of the earlier logins are neither cancelled nor closed.
C8_NoRollback ==
    [][(pc # "aborted" /\ pc' = "aborted") => (sessions' = sessions /\ handles' = handles)]_vars

\* C8 witness: launch aborted on the second login while the first account's
\* handle is still running.
C8_Witness ==
    /\ pc = "aborted"
    /\ error \in LoginErrors
    /\ Len(handles) = 1
    /\ sessions[handles[1]].state = "running"

\* C9: no account has two live session handles, and once preparing succeeded the
\* service holds exactly one handle per configured account, in order, and no other.
C9_OneHandlePerAccount ==
    /\ \A u \in Uins :
         Cardinality({h \in 1..Len(sessions) :
                        sessions[h].uin = u /\ sessions[h].state = "running"}) <= 1
    /\ "blocking" \in Range(stage_log) =>
         /\ Len(handles) = Len(accounts)
         /\ \A i \in 1..Len(handles) :
              /\ sessions[handles[i]].uin = accounts[i].uin
              /\ sessions[handles[i]].owner = "service"
         /\ \A i, j \in 1..Len(handles) : i # j => handles[i] # handles[j]

\* C9 witness: preparing succeeded for two accounts and a second login of a
\* logged-in account was rejected.
C9_Witness ==
    /\ "blocking" \in Range(stage_log)
    /\ Len(handles) = 2
    /\ ext_logins.result = Rejected

\* C10 (as claimed): an unsupported interface type fails with ConfigurationError.
C10_ConfigurationError ==
    /\ (iface_req.type \in InterfaceTypes \ supported_interface_types) =>
         (iface_req.error = "ConfigurationError" /\ iface_req.iface = None)
    /\ (iface_req.type = AWRInterface) =>
         (iface_req.error = None /\ iface_req.iface = Self)

\* C10 (amended): get_interface with a type other than AWRInterface raises
\* TypeError and returns no interface; with AWRInterface it returns an
\* interface bound to the service it was asked of.
C10_TypeError ==
    /\ (iface_req.type \in InterfaceTypes \ supported_interface_types) =>
         (iface_req.error = "TypeError" /\ iface_req.iface = None)
    /\ (iface_req.type = AWRInterface) =>
         (iface_req.error = None /\ iface_req.iface = Self)

\* C10 witness: an unsupported interface type was requested and refused.
C10_Witness ==
    /\ iface_req.type \in InterfaceTypes \ supported_interface_types
    /\ iface_req.error = "TypeError"

\* C11: the steps in which the shutdown signal is observed (the task exit_mark
\* completing, the loop test ending the blocking stage) change no session handle.
C11_ExitLeavesHandles ==
    [][((exit_mark # "done" /\ exit_mark' = "done") \/ (pc # "done" /\ pc' = "done"))
         => sessions' = sessions]_vars

\* C11 witness: the blocking stage has exited on the signal with one handle of
\* the service still running and another one completed.
C11_Witness ==
    /\ pc = "done"
    /\ sig_at = "blocking"
    /\ \E h \in ServiceHandles : sessions[h].state = "running"
    /\ \E h \in ServiceHandles : sessions[h].state = "done"

\* C13 (as claimed): the handles side of a race is finished only when every
\* session handle has completed.
C13_AggregateNeedsAll ==
    (pc = "wait" /\ gather \in {"result", "exception"}) => AllEnded

\* C14: a session handle that failed during the blocking stage does not make
\* launch raise and does not end the stage: launch is still in the stage, or
\* has left it on the shutdown signal, and no other handle was cancelled.
C14_HandleErrorContained ==
    ("blocking" \in Range(stage_log) /\ AnyFailed) =>
        /\ error = None
        /\ pc \in {"loop", "wait", "done"}
        /\ (pc = "done" => exit_mark = "done")
        /\ \A h \in ServiceHandles : sessions[h].state # "cancelled"

\* C14 witness: a race was lost to a failed handle, the signal has not fired,
\* launch is back at the loop and another handle is still running.
C14_Witness ==
    /\ pc = "loop"
    /\ gather = "exception"
    /\ ~sigexit
    /\ \E h \in ServiceHandles : sessions[h].state = "running"

PreparingPcs == {"for_next", "login_wait"}

\* C15: a shutdown signal that fires during preparing is not observed there
\* (no task waits for it yet, launch neither ends nor aborts on it); the next
\* account's login is still started, the blocking stage is still entered once
\* the accounts are exhausted, and launch then returns.
C15_SignalDuringPreparing ==
    /\ []((sig_at = "preparing" /\ pc \in PreparingPcs) => exit_mark = "none")
    /\ [][(sig_at' = "preparing" /\ sig_at # "preparing")
            => (pc' = pc /\ calls' = calls /\ error' = error)]_vars
    /\ (sig_at = "preparing" /\ pc = "for_next" /\ idx < Len(accounts)
          /\ data_folder # Unset) ~> (pc = "login_wait")
    /\ (sig_at = "preparing" /\ pc = "for_next" /\ idx = Len(accounts))
          ~> (pc = "done" /\ stage_log = <<"preparing", "blocking">>)

\* C15 witness: the signal fired during preparing, both accounts were logged
\* in all the same, and launch returned with both handles still running.
C15_Witness ==
    /\ sig_at = "preparing"
    /\ pc = "done"
    /\ Len(handles) = 2
    /\ \A h \in ServiceHandles : sessions[h].state = "running"

\* C16: with an empty accounts mapping launch attempts no login and never
\* aborts, and it has returned only if the shutdown signal fired.
C16_EmptyAccounts ==
    (accounts = <<>>) =>
        /\ calls = <<>>
        /\ handles = <<>>
        /\ error = None
        /\ pc \in {"start", "for_next", "wait", "loop", "done"}
        /\ (pc = "done" => (sigexit /\ stage_log = <<"preparing", "blocking">>))

\* C16 witness: launch with no account has returned, after the signal fired
\* during the blocking stage.
C16_Witness ==
    /\ accounts = <<>>
    /\ pc = "done"
    /\ sig_at = "blocking"

\* C12: face(x) is a record of type "face" with exactly one of id and name
\* present: id carries an int input, name a str input.
C12_FaceExactlyOne ==
    (built.fn = "face") =>
        /\ DOMAIN built.out = {"type", "id", "name"}
        /\ built.out.type = "face"
        /\ (built.out.id = PyNone) # (built.out.name = PyNone)
        /\ (built.arg.kind = "int" => (built.out.id = built.arg /\ built.out.name = PyNone))
        /\ (built.arg.kind = "str" => (built.out.name = built.arg /\ built.out.id = PyNone))

\* C12 witness: face was called with the int 0.
C12_Witness ==
    /\ built.fn = "face"
    /\ built.arg = PyInt(0)
    /\ built.out.id = PyInt(0)

\* C17: every call of text and at yields the record of its type carrying the
\* input, whatever the target, and the call changes nothing else.
C17_TextAtPure ==
    [][/\ (built'.fn = "text" =>
             built'.out.type = "text" /\ built'.out.text = built'.arg
             /\ DOMAIN built'.out = {"type", "text"})
       /\ (built'.fn = "at" =>
             built'.out.type = "at" /\ built'.out.target = built'.arg
             /\ DOMAIN built'.out = {"type", "target"})
       /\ ((built'.fn \in {"text", "at"} /\ built' # built) =>
             UNCHANGED <<accounts, data_folder, lifecycle, sessions, content>>)]_vars

\* C17 witness: at was called with a target that is no account's uin.
C17_Witness ==
    /\ built.fn = "at"
    /\ built.arg.i < 0
    /\ built.out.target.i < 0

PlainStr(v) == DOMAIN v = {"kind", "i", "s"} /\ v.kind = "str"

TaggedRecord(v) ==
    /\ "type" \in DOMAIN v
    /\ \/ v.type = "text" /\ DOMAIN v = {"type", "text"}
       \/ v.type = "at" /\ DOMAIN v = {"type", "target"}
       \/ v.type = "face" /\ DOMAIN v = {"type", "id", "name"}

\* C18 (as claimed): every Element of a content is a tagged record of type
\* text, at or face with the payload fields of its variant.
C18_ElementsAreTagged ==
    \A k \in 1..Len(content) : TaggedRecord(content[k])

\* C18 (amended): every Element of a content is a plain str or such a tagged record.
C18_ElementsAreStrOrTagged ==
    \A k \in 1..Len(content) : PlainStr(content[k]) \/ TaggedRecord(content[k])

\* C18 witness: a content of a plain str followed by a face record.
C18_Witness ==
    /\ Len(content) = 2
    /\ PlainStr(content[1])
    /\ TaggedRecord(content[2])
    /\ content[2].type = "face"

====
